---------------------------- MODULE Spec2Model ----------------------------
(***************************************************************************)
(* Model of the PayMo fraud-alert programs.                                *)
(*                                                                         *)
(*   src/src/fraud-alert-bfs.cpp  the BFS variant: boost                   *)
(*       breadth_first_search with a tree_edge visitor that throws when    *)
(*       the target is reached, and the direct-connection index            *)
(*       `friends`, a map<long,bool> keyed by perfect_hash.                *)
(*   src/src/fraud-alert.cpp      the Dijkstra variant: boost              *)
(*       dijkstra_shortest_paths over unit weights with a finish_vertex    *)
(*       visitor that throws, and the index `connections`, a               *)
(*       set<pair<Node,Node>>.                                             *)
(*                                                                         *)
(* Both programs read the same two payment files, so the model runs them   *)
(* in lockstep on the same payments: the variables of the BFS variant      *)
(* carry the source's names, those of the Dijkstra variant the suffix D.   *)
(* A state is a point of main between two payments: one action is one      *)
(* iteration of build_paymo_network's loop (bulk load) or of main's        *)
(* STEP 4 loop (live mode), taken whole.  The last streamed payment's      *)
(* locals stay visible in live and liveD.                                  *)
(*                                                                         *)
(* A Node is a vertex descriptor of adjacency_list<vecS, vecS,             *)
(* undirectedS>: the integers 0 .. num_vertices-1.  A graph is the         *)
(* function from each vertex to its out-edge list, in insertion order.     *)
(***************************************************************************)
EXTENDS Integers, Sequences, FiniteSets, TLC

(***************************************************************************)
(* Bounds of the model.                                                    *)
(***************************************************************************)
\* user ids that occur in the payment files: 1 .. NumUIDs
NumUIDs == 4
\* records of batch_payment.csv
MaxBulk == 2
\* records of stream_payment.csv
MaxStream == 2

UIDs == 1 .. NumUIDs

\* records of the batch files of SpecScenario
MaxScenarioBulk == 3

\* the nodes of SpecHash: 0 .. MaxHashNode
MaxHashNode == 7
HashNodes == 0 .. MaxHashNode

\* The chain inputs (SpecChain): user ids 1 .. NumChainUIDs, a batch file of
\* at most MaxChainBulk payments, each from a user id to the next one, and
\* a stream file of at most MaxChainStream payments between any two of them
NumChainUIDs == 6
MaxChainBulk == 5
MaxChainStream == 1

ChainUIDs == 1 .. NumChainUIDs

(***************************************************************************)
(* Program constants.                                                      *)
(***************************************************************************)
\* (std::numeric_limits<int>::max)(), the initial value of the distance vector
IntMax == 2147483647

VARIABLES
    phase,        \* position of main: "bulk" (STEP 2) or "stream" (STEP 4)
    indx,         \* build_paymo_network: records of the batch file processed
    \* ---- fraud-alert-bfs.cpp
    users,        \* UserMap users
    nodes,        \* NodeMap nodes
    g,            \* Graph g
    friends,      \* map<long, bool> friends
    output1,      \* lines written to paymo_output/output1.txt
    output2,
    output3,
    live,         \* the locals of the last iteration of the STEP 4 loop
    \* ---- fraud-alert.cpp
    usersD,
    nodesD,
    gD,           \* Graph g, out-edges carry edge_weight
    connections,  \* set<Connection> connections
    output1D,
    output2D,
    output3D,
    liveD,
    \* ---- history of the input, read by the properties only
    paid,         \* the unordered user pairs {uid1, uid2} of the payments processed
    seen,         \* the user ids in the order of their first appearance
    degrees,      \* the value of friendship in each iteration of the STEP 4 loop
    degreesD,
    \* ---- a call of perfect_hash outside main
    probe         \* the arguments and the results of two calls of perfect_hash

vars == <<phase, indx, users, nodes, g, friends, output1, output2, output3, live,
          usersD, nodesD, gD, connections, output1D, output2D, output3D, liveD,
          paid, seen,
          degrees, degreesD, probe>>

(***************************************************************************)
(* std::map and the graph primitives.                                      *)
(***************************************************************************)
\* std::map::insert: no effect when the key is present
MapInsert(m, k, v) == IF k \in DOMAIN m THEN m ELSE m @@ (k :> v)

num_vertices(gr) == Cardinality(DOMAIN gr)

\* add_vertex(g): the new vertex is num_vertices(g), with no out-edges
add_vertex(gr) ==
    LET n == num_vertices(gr)
    IN  [v \in 0 .. n |-> IF v < n THEN gr[v] ELSE <<>>]

\* edge(v0, v1, g).second in the BFS variant: an out-edge of v0 with target v1
edge(v0, v1, gr) == \E i \in 1 .. Len(gr[v0]) : gr[v0][i] = v1

\* add_edge with the out-edge lists of both ends assigned instead of extended
add_edge_overwrite(v0, v1, gr) ==
    LET g1 == [gr EXCEPT ![v0] = <<v1>>]
    IN  [g1 EXCEPT ![v1] = <<v0>>]


\* add_edge(v0, v1, g) of an undirected vecS graph: the edge is pushed on the
\* out-edge list of v0 and then on that of v1 (twice on the same list when
\* v0 = v1); vecS does not look for an existing edge
add_edge(v0, v1, gr) ==
    LET g1 == [gr EXCEPT ![v0] = Append(@, v1)]
    IN  [g1 EXCEPT ![v1] = Append(@, v0)]

\* edge(v0, v1, g).second in the Dijkstra variant
edgeD(v0, v1, gr) == \E i \in 1 .. Len(gr[v0]) : gr[v0][i].target = v1

\* add_edge(v0, v1, weight, g) in the Dijkstra variant
add_edgeD(v0, v1, weight, gr) ==
    LET g1 == [gr EXCEPT ![v0] = Append(@, [target |-> v1, weight |-> weight])]
    IN  [g1 EXCEPT ![v1] = Append(@, [target |-> v0, weight |-> weight])]

(***************************************************************************)
(* perfect_hash, create_connection, add_user, update_network.              *)
(***************************************************************************)
\* perfect_hash without the doubling that makes room for the negative
\* numbers: A and B are the absolute values
perfect_hash_no_doubling(a, b) ==
    LET A == IF a >= 0 THEN a ELSE -a
        B == IF b >= 0 THEN b ELSE -b
        C == (IF A >= B THEN A * A + A + B ELSE A + B * B) \div 2
    IN  IF (a < 0 /\ b < 0) \/ (a >= 0 /\ b >= 0) THEN C ELSE -C - 1

\* perfect_hash(int a, int b).  The node indices of the model are far below
\* the width of long, so the 64-bit arithmetic does not wrap.
perfect_hash(a, b) ==
    LET A == IF a >= 0 THEN 2 * a ELSE -2 * a - 1
        B == IF b >= 0 THEN 2 * b ELSE -2 * b - 1
        C == (IF A >= B THEN A * A + A + B ELSE A + B * B) \div 2
    IN  IF (a < 0 /\ b < 0) \/ (a >= 0 /\ b >= 0) THEN C ELSE -C - 1

\* create_connection without the ordering of the two nodes
create_connection_unordered(node1, node2) == <<node1, node2>>

\* create_connection: the smaller node first
create_connection(node1, node2) ==
    IF node1 < node2 THEN <<node1, node2>> ELSE <<node2, node1>>

\* add_user without the lookup of uid in users: a vertex per call
add_user_no_lookup(uid, s) ==
    LET node == num_vertices(s.g)
    IN  [node |-> IF uid \in DOMAIN s.users THEN s.users[uid] ELSE node,
         st   |-> [s EXCEPT !.g = add_vertex(s.g),
                            !.users = MapInsert(s.users, uid, node),
                            !.nodes = MapInsert(s.nodes, node, uid)]]

\* add_user(uid, g) on a program state s with fields users, nodes, g (the
\* function is the same text in both variants): the node of uid and the
\* state after the call
add_user(uid, s) ==
    IF uid \in DOMAIN s.users
    THEN [node |-> s.users[uid], st |-> s]
    ELSE LET node == num_vertices(s.g)
         IN  [node |-> node,
              st   |-> [s EXCEPT !.g = add_vertex(s.g),
                                 !.users = MapInsert(s.users, uid, node),
                                 !.nodes = MapInsert(s.nodes, node, uid)]]

\* the lookup with the entry of a missing key created as true
friends_at_insert_true(fr, key) ==
    IF key \in DOMAIN fr
    THEN [value |-> fr[key], friends |-> fr]
    ELSE [value |-> TRUE, friends |-> fr @@ (key :> TRUE)]

\* friends[key]: std::map::operator[] inserts key -> false when it is absent
friends_at(fr, key) ==
    IF key \in DOMAIN fr
    THEN [value |-> fr[key], friends |-> fr]
    ELSE [value |-> FALSE, friends |-> fr @@ (key :> FALSE)]

\* friends[key] = true
friends_set(fr, key) ==
    IF key \in DOMAIN fr THEN [fr EXCEPT ![key] = TRUE] ELSE fr @@ (key :> TRUE)

\* update_network without the test for an existing edge
update_network_always_add(connection, s) ==
    LET v0 == connection[1]
        v1 == connection[2]
    IN  [s EXCEPT !.g = add_edge(v0, v1, s.g),
                  !.friends = friends_set(s.friends, perfect_hash(v0, v1))]


\* update_network that adds the edge and leaves friends alone
update_network_no_mark(connection, s) ==
    IF ~edge(connection[1], connection[2], s.g)
    THEN [s EXCEPT !.g = add_edge(connection[1], connection[2], s.g)]
    ELSE s

\* update_network of fraud-alert-bfs.cpp on s = [users, nodes, g, friends]
update_network(connection, s) ==
    LET v0 == connection[1]
        v1 == connection[2]
    IN  IF ~edge(v0, v1, s.g)
        THEN [s EXCEPT !.g = add_edge(v0, v1, s.g),
                       !.friends = friends_set(s.friends, perfect_hash(v0, v1))]
        ELSE s

\* update_network of fraud-alert.cpp on s = [users, nodes, g, connections]
update_networkD(connection, s) ==
    LET weight == 1
        v0 == connection[1]
        v1 == connection[2]
    IN  IF ~edgeD(v0, v1, s.g)
        THEN [s EXCEPT !.g = add_edgeD(connection[1], connection[2], weight, s.g),
                       !.connections = @ \cup {connection}]
        ELSE s

\* one iteration of build_paymo_network's loop, BFS variant
build_paymo_network(uid1, uid2, s) ==
    LET r1 == add_user(uid1, s)
        r2 == add_user(uid2, r1.st)
        connection == create_connection(r1.node, r2.node)
    IN  update_network(connection, r2.st)

\* one iteration of build_paymo_network's loop, Dijkstra variant
build_paymo_networkD(uid1, uid2, s) ==
    LET r1 == add_user(uid1, s)
        r2 == add_user(uid2, r1.st)
        connection == create_connection(r1.node, r2.node)
    IN  update_networkD(connection, r2.st)

(***************************************************************************)
(* friendship_degree, BFS variant: boost::breadth_first_search with        *)
(* bfs_distance_visitor.  A search state is                                *)
(*   color  the colour map (white, gray, black)                            *)
(*   d      the distance vector of friendship_degree                       *)
(*   Q      the FIFO queue of discovered vertices                          *)
(*   thrown whether tree_edge has thrown stop_search_exception             *)
(*   examined  the number of out-edges examined so far                     *)
(*   events    the visitor events in the order they happened: a vertex     *)
(*             taken off the queue (examine_vertex), an out-edge examined  *)
(*             (examine_edge), a tree edge recorded (tree_edge), a vertex  *)
(*             finished (finish_vertex)                                    *)
(***************************************************************************)
RECURSIVE bfs_out_edges_every_edge(_, _, _, _, _)
\* the out-edge loop with the distance recorded on every examined edge
\* (examine_edge) instead of on tree edges only
bfs_out_edges_every_edge(gr, u, i, stop_vertex, st) ==
    IF i > Len(gr[u])
    THEN [st EXCEPT !.color[u] = "black"]
    ELSE LET v  == gr[u][i]
             s1 == [st EXCEPT !.examined = @ + 1, !.d[v] = st.d[u] + 1]
         IN  IF v = stop_vertex
             THEN [s1 EXCEPT !.thrown = TRUE]
             ELSE IF s1.color[v] = "white"
             THEN bfs_out_edges_every_edge(gr, u, i + 1, stop_vertex,
                      [s1 EXCEPT !.color[v] = "gray", !.Q = Append(@, v)])
             ELSE bfs_out_edges_every_edge(gr, u, i + 1, stop_vertex, s1)

RECURSIVE bfs_out_edges_flag_stop(_, _, _, _, _)
\* the out-edge loop with the stop recorded in a flag that only the
\* enclosing loop over the queue tests: the remaining out-edges of the
\* vertex are still examined
bfs_out_edges_flag_stop(gr, u, i, stop_vertex, st) ==
    IF i > Len(gr[u])
    THEN [st EXCEPT !.color[u] = "black",
                    !.events = Append(@, <<"finish_vertex", u, u>>)]
    ELSE LET v  == gr[u][i]
             s1 == [st EXCEPT !.examined = @ + 1,
                              !.events = Append(@, <<"examine_edge", u, v>>)]
         IN  IF s1.color[v] = "white"
             THEN bfs_out_edges_flag_stop(gr, u, i + 1, stop_vertex,
                      [s1 EXCEPT !.d[v] = s1.d[u] + 1,
                                 !.events = Append(@, <<"tree_edge", u, v>>),
                                 !.thrown = (@ \/ v = stop_vertex),
                                 !.color[v] = "gray",
                                 !.Q = Append(@, v)])
             ELSE bfs_out_edges_flag_stop(gr, u, i + 1, stop_vertex, s1)


RECURSIVE bfs_out_edges_no_gray(_, _, _, _, _)
\* the out-edge loop without the colouring of a discovered vertex: a vertex
\* stays white, and is queued again by every edge into it, until it is
\* finished
bfs_out_edges_no_gray(gr, u, i, stop_vertex, st) ==
    IF i > Len(gr[u])
    THEN [st EXCEPT !.color[u] = "black",
                    !.events = Append(@, <<"finish_vertex", u, u>>)]
    ELSE LET v  == gr[u][i]
             s1 == [st EXCEPT !.examined = @ + 1,
                              !.events = Append(@, <<"examine_edge", u, v>>)]
         IN  IF s1.color[v] = "white"
             THEN LET s2 == [s1 EXCEPT !.d[v] = s1.d[u] + 1,
                                       !.events = Append(@, <<"tree_edge", u, v>>)]
                  IN  IF v = stop_vertex
                      THEN [s2 EXCEPT !.thrown = TRUE]
                      ELSE bfs_out_edges_no_gray(gr, u, i + 1, stop_vertex,
                               [s2 EXCEPT !.Q = Append(@, v)])
             ELSE bfs_out_edges_no_gray(gr, u, i + 1, stop_vertex, s1)


RECURSIVE bfs_out_edges(_, _, _, _, _)
\* the loop over the out-edges of u, from the i-th on
bfs_out_edges(gr, u, i, stop_vertex, st) ==
    IF i > Len(gr[u])
    THEN \* finish_vertex
         [st EXCEPT !.color[u] = "black",
                    !.events = Append(@, <<"finish_vertex", u, u>>)]
    ELSE LET v  == gr[u][i]
             \* examine_edge
             s1 == [st EXCEPT !.examined = @ + 1,
                              !.events = Append(@, <<"examine_edge", u, v>>)]
         IN  IF s1.color[v] = "white"
             THEN \* tree_edge: d[v] = d[u] + 1, and the throw
                  LET s2 == [s1 EXCEPT !.d[v] = s1.d[u] + 1,
                                       !.events = Append(@, <<"tree_edge", u, v>>)]
                  IN  IF v = stop_vertex
                      THEN [s2 EXCEPT !.thrown = TRUE]
                      ELSE bfs_out_edges(gr, u, i + 1, stop_vertex,
                               [s2 EXCEPT !.color[v] = "gray",
                                          !.Q = Append(@, v)])
             ELSE bfs_out_edges(gr, u, i + 1, stop_vertex, s1)

RECURSIVE bfs_visit(_, _, _)
\* breadth_first_visit's while loop
bfs_visit(gr, stop_vertex, st) ==
    IF st.thrown \/ st.Q = <<>>
    THEN st
    ELSE LET u == Head(st.Q)
         IN  bfs_visit(gr, stop_vertex,
                 bfs_out_edges(gr, u, 1, stop_vertex,
                     [st EXCEPT !.Q = Tail(@),
                                !.events = Append(@, <<"examine_vertex", u, u>>)]))

\* breadth_first_search(g, s, visitor(record_bfs_distance(d, stop_vertex)))
breadth_first_search(gr, s, stop_vertex, d) ==
    bfs_visit(gr, stop_vertex,
        [color    |-> [v \in DOMAIN gr |-> IF v = s THEN "gray" ELSE "white"],
         d        |-> d,
         Q        |-> <<s>>,
         thrown   |-> FALSE,
         examined |-> 0,
         events   |-> <<>>])

\* friendship_degree with the distance vector left at the vector's default, 0
friendship_search_zero_init(connection, gr) ==
    breadth_first_search(gr, connection[1], connection[2], [v \in DOMAIN gr |-> 0])

\* friendship_degree up to its return statement: the search state the try
\* block ends in
friendship_search(connection, gr) ==
    LET start_node == connection[1]
        stop_node  == connection[2]
        d == [v \in DOMAIN gr |-> IF v = start_node THEN 0 ELSE IntMax]
    IN  breadth_first_search(gr, start_node, stop_node, d)

\* int friendship_degree(Connection connection, Graph& g): d[stop_node]
friendship_degree(connection, gr) ==
    friendship_search(connection, gr).d[connection[2]]

(***************************************************************************)
(* friendship_degree, Dijkstra variant: boost::dijkstra_shortest_paths     *)
(* with early_stop_visitor (use_early_stop is true at the only call).      *)
(* dijkstra_shortest_paths sets every distance to inf =                    *)
(* numeric_limits<int>::max(), the start's to zero, every predecessor to   *)
(* the vertex itself, and runs breadth_first_visit with a priority queue   *)
(* keyed by distance, boost's d_ary_heap_indirect of arity 4 with the      *)
(* comparison std::less.  A search state is color, d, p (predecessors), Q  *)
(* (the heap's array: Q[1] is the root, the children of Q[i] are           *)
(* Q[Arity * (i - 1) + 2] and the Arity - 1 entries after it), thrown,     *)
(* popped (the number of vertices taken off the queue) and examined (the   *)
(* number of out-edges examined).                                          *)
(***************************************************************************)
\* closed_plus<int>(inf): the combine function of dijkstra_shortest_paths
closed_plus(a, b) == IF a = IntMax \/ b = IntMax THEN IntMax ELSE a + b

\* d_ary_heap_indirect<Vertex, 4, ...>: the queue dijkstra_shortest_paths uses
Arity == 4

\* the entries i and j of the heap array exchanged
heap_swap(Q, i, j) == [Q EXCEPT ![i] = Q[j], ![j] = Q[i]]

\* the array index of the parent of the entry i
heap_parent(i) == ((i - 2) \div Arity) + 1

RECURSIVE preserve_heap_property_up(_, _, _)
\* the entry i moves up while its distance is less than its parent's
preserve_heap_property_up(Q, d, i) ==
    IF i = 1
    THEN Q
    ELSE LET parent == heap_parent(i)
         IN  IF d[Q[i]] < d[Q[parent]]
             THEN preserve_heap_property_up(heap_swap(Q, i, parent), d, parent)
             ELSE Q

\* the child of the entry i of least distance, the first of them in the
\* array among equal ones; the entry i has a child
heap_smallest_child(Q, d, i) ==
    LET first == Arity * (i - 1) + 2
        last  == IF first + Arity - 1 <= Len(Q) THEN first + Arity - 1 ELSE Len(Q)
    IN  CHOOSE c \in first .. last :
            /\ \A k \in first .. last : d[Q[c]] <= d[Q[k]]
            /\ \A k \in first .. (c - 1) : d[Q[k]] > d[Q[c]]

RECURSIVE preserve_heap_property_down(_, _, _)
\* the entry i moves down while its smallest child's distance is less than
\* its own
preserve_heap_property_down(Q, d, i) ==
    IF Arity * (i - 1) + 2 > Len(Q)
    THEN Q
    ELSE LET c == heap_smallest_child(Q, d, i)
         IN  IF d[Q[c]] < d[Q[i]]
             THEN preserve_heap_property_down(heap_swap(Q, i, c), d, c)
             ELSE Q

\* Q.push(v): v is put at the end of the array and moves up
heap_push(Q, d, v) == preserve_heap_property_up(Append(Q, v), d, Len(Q) + 1)

\* Q.update(v) after the distance of v has decreased: v moves up
heap_update(Q, d, v) ==
    preserve_heap_property_up(Q, d, CHOOSE i \in 1 .. Len(Q) : Q[i] = v)

\* Q.top(): the root of the heap
dijkstra_top(st) == st.Q[1]

\* Q.pop(): the last entry of the array replaces the root and moves down
dijkstra_pop(Q, d) ==
    IF Len(Q) = 1
    THEN <<>>
    ELSE preserve_heap_property_down(
             [SubSeq(Q, 1, Len(Q) - 1) EXCEPT ![1] = Q[Len(Q)]], d, 1)

\* relax_target(e, ...): the state after relaxing the edge u -> e.target
relax_target(u, e, st) ==
    LET v   == e.target
        d_u == st.d[u]
        d_v == st.d[v]
        new == closed_plus(d_u, e.weight)
    IN  IF new < d_v
        THEN [st EXCEPT !.d[v] = new, !.p[v] = u]
        ELSE st

RECURSIVE dijkstra_out_edges(_, _, _, _, _)
\* the loop over the out-edges of u, from the i-th on, then finish_vertex(u),
\* where early_stop_visitor throws when u is the target
dijkstra_out_edges(gr, u, i, target_node, st) ==
    IF i > Len(gr[u])
    THEN [st EXCEPT !.color[u] = "black", !.thrown = (u = target_node)]
    ELSE LET e  == gr[u][i]
             v  == e.target
             s1 == [st EXCEPT !.examined = @ + 1]         \* examine_edge
             s2 == relax_target(u, e, s1)
         IN  IF s1.color[v] = "white"
             THEN \* tree_edge, then the vertex is discovered and pushed
                  dijkstra_out_edges(gr, u, i + 1, target_node,
                      [s2 EXCEPT !.color[v] = "gray",
                                 !.Q = heap_push(s2.Q, s2.d, v)])
             ELSE IF s1.color[v] = "gray"
             THEN \* gray_target: relax, and Q.update(v) when d[v] decreased
                  dijkstra_out_edges(gr, u, i + 1, target_node,
                      IF s2.d[v] # s1.d[v]
                      THEN [s2 EXCEPT !.Q = heap_update(s2.Q, s2.d, v)]
                      ELSE s2)
             ELSE \* black_target
                  dijkstra_out_edges(gr, u, i + 1, target_node, s1)

RECURSIVE dijkstra_visit(_, _, _)
\* breadth_first_visit's while loop over the priority queue
dijkstra_visit(gr, target_node, st) ==
    IF st.thrown \/ st.Q = <<>>
    THEN st
    ELSE LET u == dijkstra_top(st)
         IN  dijkstra_visit(gr, target_node,
                 dijkstra_out_edges(gr, u, 1, target_node,
                     [st EXCEPT !.Q = dijkstra_pop(st.Q, st.d), !.popped = @ + 1]))

\* dijkstra_shortest_paths(g, start_vertex, predecessor_map(p).distance_map(d).visitor(sev))
dijkstra_shortest_paths(gr, s, target_node) ==
    dijkstra_visit(gr, target_node,
        [color  |-> [v \in DOMAIN gr |-> IF v = s THEN "gray" ELSE "white"],
         d      |-> [v \in DOMAIN gr |-> IF v = s THEN 0 ELSE IntMax],
         p      |-> [v \in DOMAIN gr |-> v],
         Q      |-> <<s>>,
         thrown |-> FALSE,
         popped |-> 0,
         examined |-> 0])

\* friendship_degree of fraud-alert.cpp up to its return statement
friendship_searchD(connection, gr) ==
    dijkstra_shortest_paths(gr, connection[1], connection[2])

\* friendship_degree of fraud-alert.cpp returning the distance of the start
\* vertex in place of the target's
friendship_degreeD_of_start(connection, gr) ==
    friendship_searchD(connection, gr).d[connection[1]]


\* int friendship_degree(Connection connection, Graph& g, bool use_early_stop)
friendship_degreeD(connection, gr) ==
    friendship_searchD(connection, gr).d[connection[2]]

(***************************************************************************)
(* The verdicts written to the three output files.                         *)
(***************************************************************************)
\* friendship>1 ? "Unverified" : "Trusted"
Tier1(friendship) == IF friendship > 1 THEN "Unverified" ELSE "Trusted"
\* the third verdict with >= in place of >
Tier3_off_by_one(friendship) == IF friendship >= 4 THEN "Unverified" ELSE "Trusted"

\* friendship>2 ? "Unverified" : "Trusted"
Tier2(friendship) == IF friendship > 2 THEN "Unverified" ELSE "Trusted"
\* friendship>4 ? "Unverified" : "Trusted"
Tier3(friendship) == IF friendship > 4 THEN "Unverified" ELSE "Trusted"

(***************************************************************************)
(* One iteration of main's STEP 4 loop.  The result holds the program      *)
(* state after the iteration (st) and the iteration's locals: the two      *)
(* nodes, the connection, friendship, whether friendship_degree was        *)
(* called (searched) and, when it was, the graph it was called on          *)
(* (g_search; the empty graph otherwise).  The variables live and liveD    *)
(* keep them, with the graph (g_before) and the payments processed         *)
(* (paid_before) as they were when the iteration began.                    *)
(***************************************************************************)
\* the loop body with update_network called before friendship_degree
\* the STEP 4 loop without the update of the payment graph after the search
main_loop_search_only(uid1, uid2, s) ==
    LET r1 == add_user(uid1, s)
        r2 == add_user(uid2, r1.st)
        connection == create_connection(r1.node, r2.node)
        look == friends_at(r2.st.friends, perfect_hash(connection[1], connection[2]))
        s3 == [r2.st EXCEPT !.friends = look.friends]
        loc == [uid1 |-> uid1, uid2 |-> uid2, node1 |-> r1.node, node2 |-> r2.node,
                connection |-> connection]
    IN  IF look.value
        THEN [st |-> s3, friendship |-> 1, searched |-> FALSE, g_search |-> <<>>,
              loc |-> loc]
        ELSE [st |-> s3,
              friendship |-> friendship_degree(connection, s3.g),
              searched |-> TRUE, g_search |-> s3.g, loc |-> loc]


main_loop_insert_first(uid1, uid2, s) ==
    LET r1 == add_user(uid1, s)
        r2 == add_user(uid2, r1.st)
        connection == create_connection(r1.node, r2.node)
        look == friends_at(r2.st.friends, perfect_hash(connection[1], connection[2]))
        s3 == [r2.st EXCEPT !.friends = look.friends]
        s4 == update_network(connection, s3)
        loc == [uid1 |-> uid1, uid2 |-> uid2, node1 |-> r1.node, node2 |-> r2.node,
                connection |-> connection]
    IN  IF look.value
        THEN [st |-> s3, friendship |-> 1, searched |-> FALSE, g_search |-> <<>>,
              loc |-> loc]
        ELSE [st |-> s4, friendship |-> friendship_degree(connection, s4.g),
              searched |-> TRUE, g_search |-> s4.g, loc |-> loc]

\* fraud-alert-bfs.cpp
main_loop(uid1, uid2, s) ==
    LET r1 == add_user(uid1, s)
        r2 == add_user(uid2, r1.st)
        connection == create_connection(r1.node, r2.node)
        look == friends_at(r2.st.friends, perfect_hash(connection[1], connection[2]))
        s3 == [r2.st EXCEPT !.friends = look.friends]
        loc == [uid1 |-> uid1, uid2 |-> uid2, node1 |-> r1.node, node2 |-> r2.node,
                connection |-> connection]
    IN  IF look.value
        THEN [st |-> s3, friendship |-> 1, searched |-> FALSE, g_search |-> <<>>,
              loc |-> loc]
        ELSE [st |-> update_network(connection, s3),
              friendship |-> friendship_degree(connection, s3.g),
              searched |-> TRUE, g_search |-> s3.g, loc |-> loc]

\* fraud-alert.cpp
main_loopD(uid1, uid2, s) ==
    LET r1 == add_user(uid1, s)
        r2 == add_user(uid2, r1.st)
        connection == create_connection(r1.node, r2.node)
        s3 == r2.st
        loc == [uid1 |-> uid1, uid2 |-> uid2, node1 |-> r1.node, node2 |-> r2.node,
                connection |-> connection]
    IN  IF connection \in s3.connections
        THEN [st |-> s3, friendship |-> 1, searched |-> FALSE, g_search |-> <<>>,
              loc |-> loc]
        ELSE [st |-> update_networkD(connection, s3),
              friendship |-> friendship_degreeD(connection, s3.g),
              searched |-> TRUE, g_search |-> s3.g, loc |-> loc]

(***************************************************************************)
(* The state machine.                                                      *)
(***************************************************************************)
\* the program state of each variant as a record
StateB == [users |-> users, nodes |-> nodes, g |-> g, friends |-> friends]
StateD == [users |-> usersD, nodes |-> nodesD, g |-> gD, connections |-> connections]

\* the value of live and liveD before the first streamed payment
NoLive ==
    [valid |-> FALSE, friendship |-> 0, searched |-> FALSE, g_search |-> <<>>,
     g_before |-> <<>>, loc |-> [uid1 |-> 0, uid2 |-> 0, node1 |-> 0, node2 |-> 0,
                                 connection |-> <<0, 0>>],
     paid_before |-> {}]

\* perfect_hash has not been called outside main
NoProbe == [called |-> FALSE, c1 |-> <<0, 0>>, c2 |-> <<0, 0>>, h1 |-> 0, h2 |-> 0]

\* first-appearance order of the user ids, extended by one payment
SeenAfter(sq, uid1, uid2) ==
    LET InSeq(q, x) == \E i \in 1 .. Len(q) : q[i] = x
        s1 == IF InSeq(sq, uid1) THEN sq ELSE Append(sq, uid1)
    IN  IF InSeq(s1, uid2) THEN s1 ELSE Append(s1, uid2)

\* main up to STEP 2: nothing registered, an empty graph, no output
InitMain ==
    /\ phase = "bulk"
    /\ indx = 0
    /\ users = <<>> /\ nodes = <<>> /\ g = <<>> /\ friends = <<>>
    /\ output1 = <<>> /\ output2 = <<>> /\ output3 = <<>>
    /\ live = NoLive
    /\ usersD = <<>> /\ nodesD = <<>> /\ gD = <<>> /\ connections = {}
    /\ output1D = <<>> /\ output2D = <<>> /\ output3D = <<>>
    /\ liveD = NoLive
    /\ paid = {}
    /\ seen = <<>>
    /\ degrees = <<>> /\ degreesD = <<>>

Init ==
    /\ InitMain
    /\ probe = NoProbe

\* build_paymo_network processes the next record (uid1, uid2) of a batch
\* file of at most maxBulk records
BulkStep(uid1, uid2, maxBulk) ==
    /\ phase = "bulk"
    /\ indx < maxBulk
    /\ LET b == build_paymo_network(uid1, uid2, StateB)
           d == build_paymo_networkD(uid1, uid2, StateD)
       IN  /\ users' = b.users /\ nodes' = b.nodes /\ g' = b.g /\ friends' = b.friends
           /\ usersD' = d.users /\ nodesD' = d.nodes /\ gD' = d.g
           /\ connections' = d.connections
    /\ indx' = indx + 1
    /\ paid' = paid \cup {{uid1, uid2}}
    /\ seen' = SeenAfter(seen, uid1, uid2)
    /\ UNCHANGED <<phase, output1, output2, output3, live,
                   output1D, output2D, output3D, liveD, degrees, degreesD, probe>>

\* the batch file is exhausted: main goes on to the stream file (STEP 3, 4)
StartStream ==
    /\ phase = "bulk"
    /\ phase' = "stream"
    /\ UNCHANGED <<indx, users, nodes, g, friends, output1, output2, output3, live,
                   usersD, nodesD, gD, connections, output1D, output2D, output3D,
                   liveD, paid, seen, degrees, degreesD, probe>>

\* the STEP 4 loop with the three verdicts written in the branch of the
\* search only: a payment between direct connections leaves no line
LiveStep_output_when_searched(uid1, uid2, maxStream) ==
    /\ phase = "stream"
    /\ Len(degrees) < maxStream
    /\ LET b == main_loop(uid1, uid2, StateB)
           d == main_loopD(uid1, uid2, StateD)
       IN  /\ users' = b.st.users /\ nodes' = b.st.nodes /\ g' = b.st.g
           /\ friends' = b.st.friends
           /\ output1' = IF b.searched THEN Append(output1, Tier1(b.friendship))
                                       ELSE output1
           /\ output2' = IF b.searched THEN Append(output2, Tier2(b.friendship))
                                       ELSE output2
           /\ output3' = IF b.searched THEN Append(output3, Tier3(b.friendship))
                                       ELSE output3
           /\ degrees' = Append(degrees, b.friendship)
           /\ live' = [valid |-> TRUE, friendship |-> b.friendship,
                       searched |-> b.searched, g_search |-> b.g_search,
                       g_before |-> g, loc |-> b.loc,
                       paid_before |-> paid]
           /\ usersD' = d.st.users /\ nodesD' = d.st.nodes /\ gD' = d.st.g
           /\ connections' = d.st.connections
           /\ output1D' = IF d.searched THEN Append(output1D, Tier1(d.friendship))
                                        ELSE output1D
           /\ output2D' = IF d.searched THEN Append(output2D, Tier2(d.friendship))
                                        ELSE output2D
           /\ output3D' = IF d.searched THEN Append(output3D, Tier3(d.friendship))
                                        ELSE output3D
           /\ degreesD' = Append(degreesD, d.friendship)
           /\ liveD' = [valid |-> TRUE, friendship |-> d.friendship,
                        searched |-> d.searched, g_search |-> d.g_search,
                        g_before |-> gD, loc |-> d.loc,
                        paid_before |-> paid]
    /\ paid' = paid \cup {{uid1, uid2}}
    /\ seen' = SeenAfter(seen, uid1, uid2)
    /\ UNCHANGED <<phase, indx, probe>>


\* main's STEP 4 loop processes the next record (uid1, uid2) of a stream
\* file of at most maxStream records
LiveStep(uid1, uid2, maxStream) ==
    /\ phase = "stream"
    /\ Len(degrees) < maxStream
    /\ LET b == main_loop(uid1, uid2, StateB)
           d == main_loopD(uid1, uid2, StateD)
       IN  /\ users' = b.st.users /\ nodes' = b.st.nodes /\ g' = b.st.g
           /\ friends' = b.st.friends
           /\ output1' = Append(output1, Tier1(b.friendship))
           /\ output2' = Append(output2, Tier2(b.friendship))
           /\ output3' = Append(output3, Tier3(b.friendship))
           /\ degrees' = Append(degrees, b.friendship)
           /\ live' = [valid |-> TRUE, friendship |-> b.friendship,
                       searched |-> b.searched, g_search |-> b.g_search,
                       g_before |-> g, loc |-> b.loc,
                       paid_before |-> paid]
           /\ usersD' = d.st.users /\ nodesD' = d.st.nodes /\ gD' = d.st.g
           /\ connections' = d.st.connections
           /\ output1D' = Append(output1D, Tier1(d.friendship))
           /\ output2D' = Append(output2D, Tier2(d.friendship))
           /\ output3D' = Append(output3D, Tier3(d.friendship))
           /\ degreesD' = Append(degreesD, d.friendship)
           /\ liveD' = [valid |-> TRUE, friendship |-> d.friendship,
                        searched |-> d.searched, g_search |-> d.g_search,
                        g_before |-> gD, loc |-> d.loc,
                        paid_before |-> paid]
    /\ paid' = paid \cup {{uid1, uid2}}
    /\ seen' = SeenAfter(seen, uid1, uid2)
    /\ UNCHANGED <<phase, indx, probe>>

BulkPayment(uid1, uid2) == BulkStep(uid1, uid2, MaxBulk)

LivePayment(uid1, uid2) == LiveStep(uid1, uid2, MaxStream)

Next ==
    \/ \E uid1 \in UIDs, uid2 \in UIDs : BulkPayment(uid1, uid2)
    \/ StartStream
    \/ \E uid1 \in UIDs, uid2 \in UIDs : LivePayment(uid1, uid2)

\* the two programs on every batch and stream file over UIDs
Spec == Init /\ [][Next]_vars

ChainBulkPayment(uid) == BulkStep(uid, uid + 1, MaxChainBulk)

ChainLivePayment(uid1, uid2) == LiveStep(uid1, uid2, MaxChainStream)

NextChain ==
    \/ \E uid \in 1 .. (NumChainUIDs - 1) : ChainBulkPayment(uid)
    \/ StartStream
    \/ \E uid1 \in ChainUIDs, uid2 \in ChainUIDs : ChainLivePayment(uid1, uid2)

\* the two programs on the chain inputs, whose graphs hold paths of up to
\* NumChainUIDs - 1 edges
SpecChain == Init /\ [][NextChain]_vars

ScenarioBulkPayment(uid) == BulkStep(uid, uid + 1, MaxScenarioBulk)

NextScenario ==
    \/ \E uid \in 1 .. (NumUIDs - 1) : ScenarioBulkPayment(uid)
    \/ StartStream
    \/ \E uid1 \in UIDs, uid2 \in UIDs : LivePayment(uid1, uid2)

\* the two programs on batch files of up to MaxScenarioBulk payments between
\* consecutive user ids, followed by any stream file over UIDs
SpecScenario == Init /\ [][NextScenario]_vars

\* the arguments of two calls of create_connection, any nodes up to MaxHashNode
InitHash ==
    /\ InitMain
    /\ \E a \in HashNodes, b \in HashNodes, c \in HashNodes, d \in HashNodes :
           probe = [NoProbe EXCEPT !.c1 = <<a, b>>, !.c2 = <<c, d>>]

\* update_network's key of both pairs: perfect_hash(connection.first,
\* connection.second) of the connection create_connection returns
HashPairs ==
    /\ ~probe.called
    /\ LET k1 == create_connection(probe.c1[1], probe.c1[2])
           k2 == create_connection(probe.c2[1], probe.c2[2])
       IN  probe' = [called |-> TRUE, c1 |-> k1, c2 |-> k2,
                     h1 |-> perfect_hash(k1[1], k1[2]),
                     h2 |-> perfect_hash(k2[1], k2[2])]
    /\ UNCHANGED <<phase, indx, users, nodes, g, friends, output1, output2, output3,
                   live, usersD, nodesD, gD, connections, output1D, output2D,
                   output3D, liveD, paid, seen, degrees, degreesD>>

NextHash == HashPairs

\* perfect_hash on the keys of every two node pairs up to MaxHashNode
SpecHash == InitHash /\ [][NextHash]_vars

(***************************************************************************)
(* Graph notions the properties are stated with.                           *)
(***************************************************************************)
\* the neighbour sets of a graph of the BFS variant, of the Dijkstra variant
Adj(gr) == [u \in DOMAIN gr |-> {gr[u][i] : i \in 1 .. Len(gr[u])}]
AdjD(gr) == [u \in DOMAIN gr |-> {gr[u][i].target : i \in 1 .. Len(gr[u])}]

\* the number of edges between a and b: the out-edges of a with target b
\* (a self-loop is stored twice on its vertex's list)
Multiplicity(adjSeq, a, b) ==
    LET n == Cardinality({i \in 1 .. Len(adjSeq[a]) : adjSeq[a][i] = b})
    IN  IF a = b THEN n \div 2 ELSE n

\* the out-edge lists of a Dijkstra-variant graph, targets only
Targets(gr) == [u \in DOMAIN gr |-> [i \in 1 .. Len(gr[u]) |-> gr[u][i].target]]

RECURSIVE BallDistance(_, _, _, _)
\* the least k with b in the ball of radius k around a, IntMax when there is
\* none: ball is the ball of radius k
BallDistance(adj, ball, k, b) ==
    IF b \in ball
    THEN k
    ELSE LET next == ball \cup UNION {adj[u] : u \in ball}
         IN  IF next = ball THEN IntMax ELSE BallDistance(adj, next, k + 1, b)

\* the shortest-path distance in edge count from a to b, IntMax when b is
\* not reachable from a
Distance(adj, a, b) == BallDistance(adj, {a}, 0, b)

RECURSIVE Closure(_, _)
\* the vertices reachable from those of S
Closure(adj, S) ==
    LET next == S \cup UNION {adj[u] : u \in S}
    IN  IF next = S THEN S ELSE Closure(adj, next)

Component(adj, a) == Closure(adj, {a})

\* the edges of a graph given by its neighbour sets, as canonical pairs
EdgeSet(adj) == {c \in (DOMAIN adj) \X (DOMAIN adj) : c[1] <= c[2] /\ c[2] \in adj[c[1]]}

\* the canonical node pairs of a set of unordered user pairs
NodePairs(us, ps) ==
    {LET u == CHOOSE x \in pr : TRUE
         v == CHOOSE y \in pr : pr = {u, y}
     IN  create_connection(us[u], us[v]) : pr \in ps}

\* the last line of an output file
Last(out) == out[Len(out)]

\* whether the index of each variant answers true for the canonical pair c
IsFriend(c) ==
    /\ perfect_hash(c[1], c[2]) \in DOMAIN friends
    /\ friends[perfect_hash(c[1], c[2])]
IsConnection(c) == c \in connections

(***************************************************************************)
(* C1.  In live mode, when the two users of a streamed payment are not     *)
(* directly connected, friendship_degree is called on the graph whose      *)
(* edges are exactly those of the payments processed before it, without    *)
(* the payment's own edge, and the verdicts come from that degree; after   *)
(* every live payment the edge between its two users is in the graph and   *)
(* in the direct-connection index.                                         *)
(***************************************************************************)
C1_One(lv, us, adjNow, adjSearch, adjBefore, deg, o1, o2, o3, indexed) ==
    lv.valid =>
        LET c == lv.loc.connection
        IN  /\ (c \notin EdgeSet(adjBefore)) => lv.searched
            /\ lv.searched =>
                   /\ EdgeSet(adjSearch) = NodePairs(us, lv.paid_before)
                   /\ EdgeSet(adjSearch) = EdgeSet(adjBefore)
                   /\ c \notin EdgeSet(adjSearch)
                   /\ lv.friendship = deg
                   /\ Last(o1) = Tier1(deg) /\ Last(o2) = Tier2(deg)
                   /\ Last(o3) = Tier3(deg)
            /\ c \in EdgeSet(adjNow)
            /\ indexed

\* C1: the search sees the graph of the earlier payments only, the edge is
\* inserted afterwards, in the BFS variant and in the Dijkstra variant
C1_SearchBeforeInsert ==
    /\ C1_One(live, users, Adj(g), Adj(live.g_search), Adj(live.g_before),
              friendship_degree(live.loc.connection, live.g_search),
              output1, output2, output3, IsFriend(live.loc.connection))
    /\ C1_One(liveD, usersD, AdjD(gD), AdjD(liveD.g_search), AdjD(liveD.g_before),
              friendship_degreeD(liveD.loc.connection, liveD.g_search),
              output1D, output2D, output3D, IsConnection(liveD.loc.connection))

\* the second streamed payment was searched on a graph holding the edge
\* of the first, and its own edge is in the graph now
C1_Witness ==
    /\ live.valid /\ live.searched /\ liveD.searched
    /\ Len(output1) = 2
    /\ indx >= 1
    /\ Cardinality(EdgeSet(Adj(live.g_search))) = indx + 1
    /\ live.friendship = 2
    /\ live.loc.connection \in EdgeSet(Adj(g))

(***************************************************************************)
(* C2.  On every graph the program reaches, for every pair of distinct     *)
(* nodes (start, target) with no edge between them and target reachable    *)
(* from start, friendship_degree returns the shortest-path distance in     *)
(* edge count, in both variants, although the traversal is aborted when    *)
(* the target is found.                                                    *)
(***************************************************************************)
C2_ExactDistance ==
    /\ \A a \in DOMAIN g, b \in DOMAIN g :
           (a # b /\ b \notin Adj(g)[a] /\ b \in Component(Adj(g), a))
               => friendship_degree(<<a, b>>, g) = Distance(Adj(g), a, b)
    /\ \A a \in DOMAIN gD, b \in DOMAIN gD :
           (a # b /\ b \notin AdjD(gD)[a] /\ b \in Component(AdjD(gD), a))
               => friendship_degreeD(<<a, b>>, gD) = Distance(AdjD(gD), a, b)

\* a traversal that was aborted: the target at distance 2 was found while a
\* discovered vertex was still waiting in the queue
C2_Witness ==
    \E a \in DOMAIN g, b \in DOMAIN g :
        /\ a # b /\ b \notin Adj(g)[a]
        /\ Distance(Adj(g), a, b) = 2
        /\ friendship_degree(<<a, b>>, g) = 2
        /\ friendship_search(<<a, b>>, g).thrown
        /\ friendship_search(<<a, b>>, g).Q # <<>>
        /\ friendship_degreeD(<<a, b>>, gD) = 2
        /\ friendship_searchD(<<a, b>>, gD).thrown

(***************************************************************************)
(* C3.  A streamed payment gets the first verdict Trusted only if an edge  *)
(* between its two users was in the graph before the payment was           *)
(* processed.                                                              *)
(***************************************************************************)
C3_TrustedOnlyIfPriorEdge ==
    /\ (live.valid /\ Last(output1) = "Trusted")
           => live.loc.connection \in EdgeSet(Adj(live.g_before))
    /\ (liveD.valid /\ Last(output1D) = "Trusted")
           => liveD.loc.connection \in EdgeSet(AdjD(liveD.g_before))

(***************************************************************************)
(* C4.  Once a payment between users u and v has been processed, in bulk   *)
(* or live mode and in either order, a later live evaluation of the pair   *)
(* has degree 1, Trusted on the three tiers, and does not call             *)
(* friendship_degree.                                                      *)
(***************************************************************************)
C4_One(lv, o1, o2, o3) ==
    (lv.valid /\ {lv.loc.uid1, lv.loc.uid2} \in lv.paid_before) =>
        /\ lv.friendship = 1
        /\ ~lv.searched
        /\ Last(o1) = "Trusted" /\ Last(o2) = "Trusted" /\ Last(o3) = "Trusted"

\* C4: a pair paid before is evaluated as degree 1 without a search, in
\* both variants
C4_DirectShortcut ==
    /\ C4_One(live, output1, output2, output3)
    /\ C4_One(liveD, output1D, output2D, output3D)

\* with an empty batch file, the second streamed payment repeats the pair
\* of the first, larger node first
C4_Witness ==
    /\ live.valid /\ liveD.valid
    /\ Len(output1) = 2
    /\ live.loc.uid1 > live.loc.uid2
    /\ live.loc.node1 > live.loc.node2
    /\ indx = 0
    /\ {live.loc.uid1, live.loc.uid2} \in live.paid_before
    /\ live.friendship = 1 /\ liveD.friendship = 1
    /\ ~live.searched /\ ~liveD.searched

(***************************************************************************)
(* C5.  The direct-connection index answers true for a canonical node pair *)
(* exactly when the graph has an edge between the two nodes: the keys      *)
(* mapped to true in friends are the hashes of the graph's edges, and      *)
(* connections is the edge set.                                            *)
(***************************************************************************)
C5_IndexMatchesGraph ==
    /\ \A c \in (DOMAIN g) \X (DOMAIN g) :
           c[1] <= c[2] => (IsFriend(c) <=> c \in EdgeSet(Adj(g)))
    /\ \A k \in DOMAIN friends :
           friends[k] => \E c \in EdgeSet(Adj(g)) : k = perfect_hash(c[1], c[2])
    /\ connections = EdgeSet(AdjD(gD))

\* three edges, the last of them inserted by a streamed payment after the
\* lookup in the index, and some pair of nodes with no edge
C5_Witness ==
    /\ live.valid /\ live.searched /\ liveD.searched
    /\ Cardinality({k \in DOMAIN friends : friends[k]}) = 3
    /\ Cardinality(connections) = 3
    /\ IsFriend(live.loc.connection)
    /\ \E c \in (DOMAIN g) \X (DOMAIN g) : c[1] < c[2] /\ ~IsFriend(c)

(***************************************************************************)
(* C6.  The relationship graph is simple: no unordered node pair has more  *)
(* than one edge and no edge joins a node to itself (so update_network     *)
(* for a payment whose two users are the same inserts nothing).            *)
(***************************************************************************)
C6_SimpleGraph ==
    /\ \A a \in DOMAIN g, b \in DOMAIN g : Multiplicity(g, a, b) <= 1
    /\ \A a \in DOMAIN g : a \notin Adj(g)[a]
    /\ \A a \in DOMAIN gD, b \in DOMAIN gD : Multiplicity(Targets(gD), a, b) <= 1
    /\ \A a \in DOMAIN gD : a \notin AdjD(gD)[a]

(***************************************************************************)
(* C7.  In live mode friendship_degree is called only with start # target  *)
(* and only for a pair that is not directly connected.                     *)
(***************************************************************************)
C7_SearchPrecondition ==
    /\ (live.valid /\ live.searched) =>
           /\ live.loc.connection[1] # live.loc.connection[2]
           /\ live.loc.connection \notin EdgeSet(Adj(live.g_search))
    /\ (liveD.valid /\ liveD.searched) =>
           /\ liveD.loc.connection[1] # liveD.loc.connection[2]
           /\ liveD.loc.connection \notin EdgeSet(AdjD(liveD.g_search))

(***************************************************************************)
(* C8.  users and nodes are mutual inverses, the nodes in use are          *)
(* 0 .. N-1 for N the graph's vertex count, given in the order the user    *)
(* ids were first seen, and add_user of a known user id returns its node   *)
(* and changes nothing.                                                    *)
(***************************************************************************)
C8_One(s) ==
    /\ DOMAIN s.nodes = 0 .. (num_vertices(s.g) - 1)
    /\ DOMAIN s.users = {seen[i] : i \in 1 .. Len(seen)}
    /\ \A uid \in DOMAIN s.users :
           s.users[uid] \in DOMAIN s.nodes /\ s.nodes[s.users[uid]] = uid
    /\ \A n \in DOMAIN s.nodes :
           s.nodes[n] \in DOMAIN s.users /\ s.users[s.nodes[n]] = n
    /\ \A i \in 1 .. Len(seen) : s.users[seen[i]] = i - 1
    /\ \A uid \in DOMAIN s.users :
           add_user(uid, s) = [node |-> s.users[uid], st |-> s]

\* C8: users and nodes are inverse bijections in first-seen order, in both
\* variants
C8_RegistryBijection == C8_One(StateB) /\ C8_One(StateD)

\* three users registered out of the order of their ids, and a payment
\* between users already known
C8_Witness ==
    /\ Len(seen) = 3
    /\ seen[1] > seen[2] /\ seen[3] > seen[1]
    /\ paid = {{seen[1], seen[2]}, {seen[2], seen[3]}, {seen[1], seen[3]}}
    /\ users[seen[3]] = 2 /\ nodesD[0] = seen[1]

(***************************************************************************)
(* C9.  When the target is not reachable from the start, friendship_degree *)
(* visits the whole component of the start without throwing and returns    *)
(* IntMax, and the payment is Unverified on the three tiers.               *)
(***************************************************************************)
C9_Unreachable ==
    /\ \A a \in DOMAIN g, b \in DOMAIN g :
           b \notin Component(Adj(g), a) =>
               LET r == friendship_search(<<a, b>>, g)
               IN  /\ ~r.thrown /\ r.Q = <<>>
                   /\ {v \in DOMAIN g : r.color[v] = "black"} = Component(Adj(g), a)
                   /\ friendship_degree(<<a, b>>, g) = IntMax
    /\ \A a \in DOMAIN gD, b \in DOMAIN gD :
           b \notin Component(AdjD(gD), a) =>
               LET r == friendship_searchD(<<a, b>>, gD)
               IN  /\ ~r.thrown /\ r.Q = <<>>
                   /\ {v \in DOMAIN gD : r.color[v] = "black"} = Component(AdjD(gD), a)
                   /\ friendship_degreeD(<<a, b>>, gD) = IntMax
    /\ Tier1(IntMax) = "Unverified" /\ Tier2(IntMax) = "Unverified"
    /\ Tier3(IntMax) = "Unverified"
    /\ (live.valid /\ live.searched
          /\ live.loc.connection[2]
                 \notin Component(Adj(live.g_search), live.loc.connection[1])) =>
           /\ live.friendship = IntMax
           /\ Last(output1) = "Unverified" /\ Last(output2) = "Unverified"
           /\ Last(output3) = "Unverified"
    /\ (liveD.valid /\ liveD.searched
          /\ liveD.loc.connection[2]
                 \notin Component(AdjD(liveD.g_search), liveD.loc.connection[1])) =>
           /\ liveD.friendship = IntMax
           /\ Last(output1D) = "Unverified" /\ Last(output2D) = "Unverified"
           /\ Last(output3D) = "Unverified"

\* a streamed payment whose target lay outside the start's component of
\* three vertices
C9_Witness ==
    /\ live.valid /\ live.searched
    /\ Cardinality(Component(Adj(live.g_search), live.loc.connection[1])) = 3
    /\ live.loc.connection[2]
           \notin Component(Adj(live.g_search), live.loc.connection[1])
    /\ live.friendship = IntMax /\ liveD.friendship = IntMax
    /\ Last(output3) = "Unverified"

(***************************************************************************)
(* C10.  For the degree of every streamed payment: the first verdict is    *)
(* Trusted iff degree <= 1, the second iff degree <= 2, the third iff      *)
(* degree <= 4; so Trusted on one tier implies Trusted on the next.        *)
(* Checked on the chain inputs, where the degrees 0 .. 5 and IntMax occur. *)
(***************************************************************************)
C10_One(lv, o1, o2, o3) ==
    lv.valid =>
        /\ (Last(o1) = "Trusted") <=> (lv.friendship <= 1)
        /\ (Last(o2) = "Trusted") <=> (lv.friendship <= 2)
        /\ (Last(o3) = "Trusted") <=> (lv.friendship <= 4)
        /\ Last(o1) \in {"Trusted", "Unverified"}
        /\ Last(o2) \in {"Trusted", "Unverified"}
        /\ Last(o3) \in {"Trusted", "Unverified"}
        /\ Last(o1) = "Trusted" => Last(o2) = "Trusted"
        /\ Last(o2) = "Trusted" => Last(o3) = "Trusted"

\* C10: the three verdicts follow the thresholds 1, 2 and 4, in both variants
C10_Verdicts ==
    /\ C10_One(live, output1, output2, output3)
    /\ C10_One(liveD, output1D, output2D, output3D)

\* a payment of degree 5, the least degree that is Unverified on the
\* third tier
C10_Witness ==
    /\ live.valid /\ live.friendship = 5 /\ liveD.friendship = 5
    /\ Last(output1) = "Unverified" /\ Last(output2) = "Unverified"
    /\ Last(output3) = "Unverified"

(***************************************************************************)
(* C11.  The scenario: the historic payments (1,2), (2,3), (3,4) loaded    *)
(* into the empty network, then the streamed payments (1,3) and (1,4).     *)
(* ScenarioGraph is the graph the three historic payments build (users 1,  *)
(* 2, 3, 4 are the nodes 0, 1, 2, 3), ScenarioGraphAfter the graph main's  *)
(* loop leaves after the payment (1,3).  The specification's batch files   *)
(* hold payments between consecutive user ids only, so the edge between    *)
(* the nodes 0 and 2 is the streamed payment's.                            *)
(***************************************************************************)
ScenarioGraph ==
    [v \in 0 .. 3 |-> CASE v = 0 -> <<1>>
                        [] v = 1 -> <<0, 2>>
                        [] v = 2 -> <<1, 3>>
                        [] v = 3 -> <<2>>]

ScenarioGraphAfter ==
    [v \in 0 .. 3 |-> CASE v = 0 -> <<1, 2>>
                        [] v = 1 -> <<0, 2>>
                        [] v = 2 -> <<1, 3, 0>>
                        [] v = 3 -> <<2>>]

\* evaluate(1,3) has just run on the three historic payments
ScenarioFirst ==
    /\ live.valid /\ indx = 3 /\ Len(degrees) = 1
    /\ seen = <<1, 2, 3, 4>>
    /\ live.paid_before = {{1, 2}, {2, 3}, {3, 4}}
    /\ live.g_before = ScenarioGraph
    /\ live.loc.uid1 = 1 /\ live.loc.uid2 = 3

\* evaluate(1,4) has just run, immediately after evaluate(1,3): the payments
\* before it are the three historic ones, in any order that registers the
\* users as 1, 2, 3, 4, and one streamed payment between the users 1 and 3
ScenarioSecond ==
    /\ live.valid /\ indx = 3 /\ Len(degrees) = 2
    /\ seen = <<1, 2, 3, 4>>
    /\ live.paid_before = {{1, 2}, {2, 3}, {3, 4}, {1, 3}}
    /\ live.loc.uid1 = 1 /\ live.loc.uid2 = 4

\* evaluate(1,3) returns degree 2 with verdicts (Unverified, Trusted, Trusted)
ScenarioFirstResult ==
    ScenarioFirst =>
        /\ degrees = <<2>> /\ degreesD = <<2>>
        /\ output1 = <<"Unverified">> /\ output2 = <<"Trusted">>
        /\ output3 = <<"Trusted">>
        /\ output1D = <<"Unverified">> /\ output2D = <<"Trusted">>
        /\ output3D = <<"Trusted">>

\* C11 as stated: evaluate(1,3) returns degree 2 with (Unverified, Trusted,
\* Trusted), and evaluate(1,4) right after it returns degree 3 with
\* (Unverified, Unverified, Trusted)
C11_SecondDegreeThree ==
    /\ ScenarioFirstResult
    /\ ScenarioSecond =>
           /\ degrees = <<2, 3>> /\ degreesD = <<2, 3>>
           /\ output1 = <<"Unverified", "Unverified">>
           /\ output2 = <<"Trusted", "Unverified">>
           /\ output3 = <<"Trusted", "Trusted">>
           /\ output1D = output1 /\ output2D = output2 /\ output3D = output3

\* C11, amended: evaluate(1,3) returns degree 2 with (Unverified, Trusted,
\* Trusted) and leaves the edge between the users 1 and 3 behind, so that
\* evaluate(1,4) right after it returns degree 2 with (Unverified, Trusted,
\* Trusted) as well, along the path 1 - 3 - 4
C11_SecondDegreeTwo ==
    /\ ScenarioFirstResult
    /\ ScenarioSecond =>
           /\ EdgeSet(Adj(live.g_before)) = EdgeSet(Adj(ScenarioGraphAfter))
           /\ EdgeSet(AdjD(liveD.g_before)) = EdgeSet(Adj(ScenarioGraphAfter))
           /\ degrees = <<2, 2>> /\ degreesD = <<2, 2>>
           /\ output1 = <<"Unverified", "Unverified">>
           /\ output2 = <<"Trusted", "Trusted">>
           /\ output3 = <<"Trusted", "Trusted">>
           /\ output1D = output1 /\ output2D = output2 /\ output3D = output3

\* the scenario has run to its end: both streamed payments were evaluated
C11_Witness ==
    /\ ScenarioSecond
    /\ live.searched /\ liveD.searched
    /\ Len(output1) = 2 /\ Len(output3D) = 2
    /\ live.g_before = ScenarioGraphAfter
    /\ g # live.g_before


(***************************************************************************)
(* C12.  A streamed payment between two user ids that occur in no earlier  *)
(* payment, or between a user of an earlier payment and a user id that     *)
(* occurs in none, has the degree IntMax and three Unverified verdicts.    *)
(***************************************************************************)
\* the user ids of the payments before the last streamed one
KnownBefore(lv) == UNION lv.paid_before

C12_One(lv, degs, o1, o2, o3) ==
    (/\ lv.valid
     /\ \/ {lv.loc.uid1, lv.loc.uid2} \cap KnownBefore(lv) = {}
        \/ lv.loc.uid1 \in KnownBefore(lv) /\ lv.loc.uid2 \notin KnownBefore(lv)
        \/ lv.loc.uid2 \in KnownBefore(lv) /\ lv.loc.uid1 \notin KnownBefore(lv)) =>
        /\ lv.friendship = IntMax /\ Last(degs) = IntMax
        /\ Last(o1) = "Unverified" /\ Last(o2) = "Unverified"
        /\ Last(o3) = "Unverified"

\* C12: a streamed payment with a user id that no earlier payment names has
\* the degree IntMax (never 0) and is Unverified on all three tiers
C12_FreshIsUnreachable ==
    /\ C12_One(live, degrees, output1, output2, output3)
    /\ C12_One(liveD, degreesD, output1D, output2D, output3D)

\* the same for payments between two different user ids only
C12_FreshDistinctIsUnreachable ==
    /\ live.loc.uid1 # live.loc.uid2 =>
           C12_One(live, degrees, output1, output2, output3)
    /\ liveD.loc.uid1 # liveD.loc.uid2 =>
           C12_One(liveD, degreesD, output1D, output2D, output3D)


(***************************************************************************)
(* C13.  Nodes and edges are never removed: in every step of the program,  *)
(* bulk or live, every vertex stays, every out-edge list keeps its entries *)
(* (so neither the vertex count nor the edge count decreases), every pair  *)
(* of nodes reachable from each other stays so, and no shortest-path       *)
(* distance between two nodes increases.                                   *)
(***************************************************************************)
\* the graph after a step, given by out-edge target lists, against before
C13_Grows(before, after) ==
    /\ Cardinality(DOMAIN after) >= Cardinality(DOMAIN before)
    /\ DOMAIN before \subseteq DOMAIN after
    /\ \A u \in DOMAIN before :
           /\ Len(after[u]) >= Len(before[u])
           /\ SubSeq(after[u], 1, Len(before[u])) = before[u]
    /\ EdgeSet(Adj(before)) \subseteq EdgeSet(Adj(after))
    /\ Cardinality(EdgeSet(Adj(after))) >= Cardinality(EdgeSet(Adj(before)))
    /\ \A a \in DOMAIN before, b \in DOMAIN before :
           /\ b \in Component(Adj(before), a) => b \in Component(Adj(after), a)
           /\ Distance(Adj(after), a, b) <= Distance(Adj(before), a, b)

\* C13: no step removes a node or an edge, separates two nodes or lengthens
\* a shortest path, in either variant
C13_NeverRemoved ==
    [][/\ C13_Grows(g, g')
       /\ C13_Grows(Targets(gD), Targets(gD'))]_vars

\* a streamed payment of degree 3 over registered users has just shortened
\* the distance of its two nodes to 1, after a bulk load
C13_Witness ==
    /\ live.valid /\ live.searched /\ live.friendship = 3
    /\ indx > 0
    /\ num_vertices(g) = num_vertices(live.g_before)
    /\ Distance(Adj(live.g_before), live.loc.node1, live.loc.node2) = 3
    /\ Distance(Adj(g), live.loc.node1, live.loc.node2) = 1
    /\ Distance(AdjD(gD), live.loc.node1, live.loc.node2) = 1
    /\ Cardinality(EdgeSet(Adj(g))) = Cardinality(EdgeSet(Adj(live.g_before))) + 1


(***************************************************************************)
(* C14.  From any state of the stream phase, the evaluation of the payment *)
(* (u, v) and that of (v, u) give the same degree and the same three       *)
(* verdicts and leave the same edges behind, between the same nodes and    *)
(* between the same users; the connection is the same pair, smaller node   *)
(* first, and create_connection(a, b) = create_connection(b, a) for the    *)
(* nodes of the graph.                                                     *)
(***************************************************************************)
\* the edges of a program state as unordered pairs of user ids
UserEdges(st, adj) == {{st.nodes[c[1]], st.nodes[c[2]]} : c \in EdgeSet(adj)}

\* the results r1 of (u, v) and r2 of (v, u), adj1 and adj2 the neighbour
\* sets of the graphs they leave
C14_Same(r1, r2, adj1, adj2) ==
    /\ r1.friendship = r2.friendship
    /\ Tier1(r1.friendship) = Tier1(r2.friendship)
    /\ Tier2(r1.friendship) = Tier2(r2.friendship)
    /\ Tier3(r1.friendship) = Tier3(r2.friendship)
    /\ EdgeSet(adj1) = EdgeSet(adj2)
    /\ UserEdges(r1.st, adj1) = UserEdges(r2.st, adj2)
    /\ r1.loc.connection = r2.loc.connection
    /\ r1.loc.connection[1] <= r1.loc.connection[2]
    /\ \A a \in DOMAIN adj1, b \in DOMAIN adj1 :
           create_connection(a, b) = create_connection(b, a)

\* C14: a live evaluation of (u, v) and one of (v, u) from the same state
\* agree on degree, verdicts and edge set, in both variants
C14_Symmetric ==
    phase = "stream" =>
        \A u \in UIDs, v \in UIDs :
            LET r1 == main_loop(u, v, StateB)
                r2 == main_loop(v, u, StateB)
                q1 == main_loopD(u, v, StateD)
                q2 == main_loopD(v, u, StateD)
            IN  /\ C14_Same(r1, r2, Adj(r1.st.g), Adj(r2.st.g))
                /\ C14_Same(q1, q2, AdjD(q1.st.g), AdjD(q2.st.g))

\* a state of the stream phase with two registered users at distance 2, the
\* first of them the later registered one: both orders are searched and
\* give 2
C14_Witness ==
    /\ phase = "stream" /\ Len(degrees) < MaxStream
    /\ \E u \in DOMAIN users, v \in DOMAIN users :
           /\ users[u] > users[v]
           /\ main_loop(u, v, StateB).searched
           /\ main_loop(u, v, StateB).friendship = 2
           /\ main_loop(v, u, StateB).friendship = 2
           /\ main_loopD(u, v, StateD).friendship = 2
           /\ main_loop(u, v, StateB).loc.connection = <<users[v], users[u]>>


(***************************************************************************)
(* C15.  build_paymo_network is idempotent on a payment pair: from any     *)
(* reachable state, processing (u, v) and then (u, v) or (v, u) again      *)
(* gives the state the first processing gave: the same registry, graph     *)
(* and index, hence the same has-edge answer and direct-connection answer  *)
(* for every pair of nodes.  The degree is a function of the graph, so it  *)
(* is the same for every pair as well; it is computed for the pair of the  *)
(* payment.                                                                *)
(***************************************************************************)
\* s2 is s1 with nothing changed, BFS variant; c is the payment's connection
C15_SameB(s1, s2, c) ==
    /\ s2 = s1
    /\ s2.users = s1.users /\ s2.nodes = s1.nodes /\ s2.g = s1.g
    /\ EdgeSet(Adj(s2.g)) = EdgeSet(Adj(s1.g))
    /\ \A a \in DOMAIN s1.g, b \in DOMAIN s1.g :
           /\ edge(a, b, s2.g) = edge(a, b, s1.g)
           /\ Multiplicity(s2.g, a, b) = Multiplicity(s1.g, a, b)
           /\ friends_at(s2.friends, perfect_hash(a, b)).value
                  = friends_at(s1.friends, perfect_hash(a, b)).value
    /\ friendship_degree(c, s2.g) = friendship_degree(c, s1.g)

\* s2 is s1 with nothing changed, Dijkstra variant
C15_SameD(s1, s2, c) ==
    /\ s2 = s1
    /\ s2.users = s1.users /\ s2.nodes = s1.nodes /\ s2.g = s1.g
    /\ EdgeSet(AdjD(s2.g)) = EdgeSet(AdjD(s1.g))
    /\ s2.connections = s1.connections
    /\ \A a \in DOMAIN s1.g, b \in DOMAIN s1.g :
           /\ edgeD(a, b, s2.g) = edgeD(a, b, s1.g)
           /\ Multiplicity(Targets(s2.g), a, b) = Multiplicity(Targets(s1.g), a, b)
    /\ friendship_degreeD(c, s2.g) = friendship_degreeD(c, s1.g)

\* C15: processing a payment pair a second time, in either order, through
\* build_paymo_network changes nothing, in both variants; from every state
\* in which the program has payments left to process
C15_Idempotent ==
    Len(degrees) < MaxStream =>
        \A u \in UIDs, v \in UIDs :
            LET s1 == build_paymo_network(u, v, StateB)
                t1 == build_paymo_networkD(u, v, StateD)
                c  == create_connection(s1.users[u], s1.users[v])
            IN  /\ C15_SameB(s1, build_paymo_network(u, v, s1), c)
                /\ C15_SameB(s1, build_paymo_network(v, u, s1), c)
                /\ C15_SameD(t1, build_paymo_networkD(u, v, t1), c)
                /\ C15_SameD(t1, build_paymo_networkD(v, u, t1), c)

\* the batch file held the same pair of two users twice: one edge, one
\* index entry, two registered users
C15_Witness ==
    /\ phase = "bulk" /\ indx = 2
    /\ Cardinality(paid) = 1 /\ Len(seen) = 2
    /\ g = [v \in 0 .. 1 |-> <<1 - v>>]
    /\ Cardinality(DOMAIN friends) = 1
    /\ connections = {<<0, 1>>}
    /\ build_paymo_network(seen[2], seen[1], StateB) = StateB


(***************************************************************************)
(* C16.  In the BFS search the step that assigns the target its distance,  *)
(* tree_edge on an edge into stop_vertex, is the last event of the         *)
(* traversal, and the only one that reaches the target: nothing is taken   *)
(* off the queue, examined or finished after it, the target is never       *)
(* queued, and every vertex that has a distance when the search returns    *)
(* has one no greater than the target's.  Stated for the search between    *)
(* every two different nodes of every reachable graph.                     *)
(***************************************************************************)
\* r is the search state friendship_degree of the BFS variant ends in for
\* the target b
C16_One(r, b) ==
    LET n == Len(r.events)
    IN  /\ r.thrown =>
               /\ n > 0
               /\ r.events[n][1] = "tree_edge" /\ r.events[n][3] = b
               /\ \A i \in 1 .. (n - 1) :
                      ~(r.events[i][1] = "tree_edge" /\ r.events[i][3] = b)
               /\ r.d[b] = r.d[r.events[n][2]] + 1
               /\ r.color[b] = "white"
               /\ \A i \in 1 .. Len(r.Q) : r.Q[i] # b
               /\ \A v \in DOMAIN r.d : r.d[v] # IntMax => r.d[v] <= r.d[b]
        /\ r.d[b] # IntMax => r.thrown

\* C16: tree_edge reaching stop_vertex ends the traversal
C16_StopIsLast ==
    /\ \A a \in DOMAIN g, b \in DOMAIN g :
           a # b => C16_One(friendship_search(<<a, b>>, g), b)
    /\ (live.valid /\ live.searched
          /\ live.loc.connection[1] # live.loc.connection[2]) =>
           C16_One(friendship_search(live.loc.connection, live.g_search),
                   live.loc.connection[2])

\* a streamed payment whose search stopped at the target, at distance 2,
\* with a vertex of the start's component not yet discovered
C16_Witness ==
    /\ live.valid /\ live.searched
    /\ LET r == friendship_search(live.loc.connection, live.g_search)
           start == live.loc.connection[1]
           target == live.loc.connection[2]
       IN  /\ r.thrown
           /\ r.events[Len(r.events)][1] = "tree_edge"
           /\ r.events[Len(r.events)][3] = target
           /\ r.d[target] = 2
           /\ \E v \in Component(Adj(live.g_search), start) \ {target} :
                  r.d[v] = IntMax
           /\ r.d[target] = live.friendship


(***************************************************************************)
(* C17.  The two variants are result-equivalent: on every batch file       *)
(* followed by every stream file they compute the same degree for each     *)
(* streamed payment, write the same three verdict sequences and hold the   *)
(* same registry and the same edges, the out-edge lists in the same order; *)
(* their indexes answer alike, and their searches agree on every           *)
(* canonical pair of nodes of the graph.                                   *)
(***************************************************************************)
\* C17: the BFS variant and the Dijkstra variant agree on degrees, verdicts
\* and edge set
C17_VariantsAgree ==
    /\ degrees = degreesD
    /\ output1 = output1D /\ output2 = output2D /\ output3 = output3D
    /\ Len(output1) = Len(degrees)
    /\ live.friendship = liveD.friendship /\ live.searched = liveD.searched
    /\ live.loc = liveD.loc
    /\ users = usersD /\ nodes = nodesD
    /\ EdgeSet(Adj(g)) = EdgeSet(AdjD(gD))
    /\ Targets(gD) = g
    /\ \A a \in DOMAIN g, b \in DOMAIN g :
           a <= b =>
               /\ IsFriend(<<a, b>>) = IsConnection(<<a, b>>)
               /\ friendship_degree(<<a, b>>, g) = friendship_degreeD(<<a, b>>, gD)

\* two streamed payments, the second searched with degree 3 in both
\* variants on a graph built by a bulk load and the first streamed payment
C17_Witness ==
    /\ live.valid /\ liveD.valid /\ indx = MaxBulk
    /\ Len(degrees) = 2 /\ Len(degreesD) = 2
    /\ live.searched /\ liveD.searched
    /\ degrees[2] = 3 /\ degreesD[2] = 3
    /\ output1D = <<"Unverified", "Unverified">>
    /\ output2D[2] = "Unverified" /\ output3D[2] = "Trusted"
    /\ Cardinality(EdgeSet(AdjD(gD))) = 4


(***************************************************************************)
(* C18.  friendship_degree terminates on every reachable graph, cycles,    *)
(* self-loops and unreachable targets included: the search takes each      *)
(* vertex of the start's component off the queue at most once and examines *)
(* each out-edge of such a vertex at most once, and it ends with the queue *)
(* empty or with the stop exception thrown; what it returns is a distance  *)
(* below the number of vertices or IntMax.  Hence main, which runs one     *)
(* such search per record at most, gets to the end of the stream file:     *)
(* every step of main takes it one record, or one phase, further, and      *)
(* where the stream file is not yet processed the guard of one of main's   *)
(* loops holds.                                                            *)
(***************************************************************************)
\* the number of out-edges of the vertices of S
OutEdges(gr, S) ==
    LET RECURSIVE Sum(_)
        Sum(T) == IF T = {} THEN 0
                  ELSE LET u == CHOOSE x \in T : TRUE
                       IN  Len(gr[u]) + Sum(T \ {u})
    IN  Sum(S)

\* the events of kind k in a BFS event log
CountEvents(events, k) == Cardinality({i \in 1 .. Len(events) : events[i][1] = k})

\* the search from a to b in the graphs gr (BFS variant) and grD (Dijkstra
\* variant) has done bounded work and returns a distance or IntMax
C18_One(a, b, gr, grD) ==
    LET r    == friendship_search(<<a, b>>, gr)
        q    == friendship_searchD(<<a, b>>, grD)
        comp == Component(Adj(gr), a)
    IN  /\ CountEvents(r.events, "examine_vertex") <= Cardinality(comp)
        /\ r.examined <= OutEdges(gr, comp)
        /\ CountEvents(r.events, "examine_edge") = r.examined
        /\ r.thrown \/ r.Q = <<>>
        /\ r.d[b] \in (0 .. (num_vertices(gr) - 1)) \cup {IntMax}
        /\ friendship_degree(<<a, b>>, gr) = r.d[b]
        /\ q.popped <= Cardinality(comp)
        /\ q.examined <= OutEdges(grD, comp)
        /\ q.thrown \/ q.Q = <<>>
        /\ q.d[b] \in (0 .. (num_vertices(grD) - 1)) \cup {IntMax}
        /\ friendship_degreeD(<<a, b>>, grD) = q.d[b]

\* every search the program can start does bounded work
C18_SearchBounded ==
    /\ \A a \in DOMAIN g, b \in DOMAIN g : a <= b => C18_One(a, b, g, gD)
    /\ (live.valid /\ live.searched) =>
           C18_One(live.loc.connection[1], live.loc.connection[2],
                   live.g_search, liveD.g_search)

\* main has processed the whole stream file
StreamDone == phase = "stream" /\ Len(degrees) = MaxStream /\ Len(degreesD) = MaxStream

\* how far main has got: the records processed and the phases left behind
Progress == indx + (IF phase = "stream" THEN 1 ELSE 0) + Len(degrees)

\* main reads the batch file, or has records of the stream file left
LoopGuard == phase = "bulk" \/ (phase = "stream" /\ Len(degrees) < MaxStream)

\* C18: every search terminates, with a distance or IntMax, and the
\* processing of the stream file completes: main is at a loop guard that
\* holds until the stream file is processed, and each of its steps is one
\* step of bounded progress
C18_Terminates ==
    /\ [](C18_SearchBounded /\ (StreamDone \/ LoopGuard)
                            /\ Progress <= MaxBulk + 1 + MaxStream)
    /\ [][Progress' = Progress + 1]_vars

\* the stream file is processed, its last payment searched over a cycle of
\* three vertices for a target outside it: every vertex of the cycle was
\* taken off the queue once, and the result is IntMax
C18_Witness ==
    /\ StreamDone /\ live.valid /\ live.searched
    /\ LET r == friendship_search(live.loc.connection, live.g_search)
           comp == Component(Adj(live.g_search), live.loc.connection[1])
       IN  /\ Cardinality(comp) = 3
           /\ \A u \in comp : Cardinality(Adj(live.g_search)[u] \ {u}) = 2
           /\ CountEvents(r.events, "examine_vertex") = 3
           /\ r.examined = 6
           /\ ~r.thrown /\ r.Q = <<>>
           /\ live.friendship = IntMax /\ liveD.friendship = IntMax


(***************************************************************************)
(* C19.  Each iteration of the STEP 4 loop writes one verdict to each of   *)
(* the three outputs, at the end: after k streamed payments each output    *)
(* has k lines, the i-th the verdict of its tier for the degree of the     *)
(* i-th payment; the lines written earlier never change, and the bulk      *)
(* load writes none.                                                       *)
(***************************************************************************)
\* the outputs o1, o2, o3 hold the verdicts of the degrees degs, in order
C19_Lines(degs, o1, o2, o3) ==
    /\ Len(o1) = Len(degs) /\ Len(o2) = Len(degs) /\ Len(o3) = Len(degs)
    /\ \A i \in 1 .. Len(degs) :
           /\ o1[i] = Tier1(degs[i])
           /\ o2[i] = Tier2(degs[i])
           /\ o3[i] = Tier3(degs[i])

\* a step of main on the outputs o1, o2, o3 (primed: p1, p2, p3): a bulk
\* record leaves them alone, a streamed record (the degrees degs grow to
\* pdegs) appends one verdict of that record's degree to each
C19_Step(degs, pdegs, o1, o2, o3, p1, p2, p3) ==
    /\ pdegs = degs => (p1 = o1 /\ p2 = o2 /\ p3 = o3)
    /\ pdegs # degs =>
           /\ Len(pdegs) = Len(degs) + 1
           /\ SubSeq(pdegs, 1, Len(degs)) = degs
           /\ p1 = Append(o1, Tier1(Last(pdegs)))
           /\ p2 = Append(o2, Tier2(Last(pdegs)))
           /\ p3 = Append(o3, Tier3(Last(pdegs)))

\* C19: one verdict per output and streamed payment, in the order of the
\* payments; none in bulk mode; in both variants
C19_OneVerdictEach ==
    /\ [](/\ C19_Lines(degrees, output1, output2, output3)
          /\ C19_Lines(degreesD, output1D, output2D, output3D)
          /\ phase = "bulk" =>
                 (output1 = <<>> /\ output2 = <<>> /\ output3 = <<>> /\
                  output1D = <<>> /\ output2D = <<>> /\ output3D = <<>>))
    /\ [][/\ C19_Step(degrees, degrees', output1, output2, output3,
                      output1', output2', output3')
          /\ C19_Step(degreesD, degreesD', output1D, output2D, output3D,
                      output1D', output2D', output3D')
          /\ indx' # indx => degrees' = degrees
          /\ phase = "stream" => Len(degrees') = Len(degrees) + 1]_vars

\* a bulk load followed by two streamed payments: a direct connection, then
\* a pair at distance 2
C19_Witness ==
    /\ indx = MaxBulk /\ phase = "stream"
    /\ degrees = <<1, 2>>
    /\ output1 = <<"Trusted", "Unverified">>
    /\ output2 = <<"Trusted", "Trusted">>
    /\ output3 = <<"Trusted", "Trusted">>
    /\ output1D = <<"Trusted", "Unverified">>


(***************************************************************************)
(* C20.  perfect_hash is collision-free on the keys update_network and     *)
(* main use, the canonical pairs of non-negative nodes: two connections    *)
(* with the same key are the same connection, so an index that holds the   *)
(* key of one connection answers false for every other one.  Checked for   *)
(* the connections of every two pairs of nodes up to MaxHashNode.          *)
(***************************************************************************)
\* C20: perfect_hash(a,b) = perfect_hash(c,d) implies (a,b) = (c,d) for
\* canonical pairs of non-negative nodes, and the friends lookup of one
\* pair does not answer for another
C20_CollisionFree ==
    probe.called =>
        /\ probe.c1[1] >= 0 /\ probe.c1[1] <= probe.c1[2]
        /\ probe.c2[1] >= 0 /\ probe.c2[1] <= probe.c2[2]
        /\ probe.h1 = perfect_hash(probe.c1[1], probe.c1[2])
        /\ probe.h2 = perfect_hash(probe.c2[1], probe.c2[2])
        /\ probe.h1 = probe.h2 => probe.c1 = probe.c2
        /\ friends_at(friends_set(<<>>, probe.h1), probe.h2).value =>
               probe.c1 = probe.c2

\* the keys of the connections (2,7) and (7,7), 100 and 112
C20_Witness ==
    /\ probe.called
    /\ probe.c1 = <<2, 7>> /\ probe.c2 = <<7, 7>>
    /\ probe.h1 = 100 /\ probe.h2 = 112
    /\ ~friends_at(friends_set(<<>>, probe.h1), probe.h2).value


(***************************************************************************)
(* C21.  update_network for a connection changes the direct-connection     *)
(* answer and the adjacency of that pair only: the registry, the vertices, *)
(* the answer of every other pair and the edges between every other pair   *)
(* stay, and the out-edge lists of the pair's two nodes keep their entries *)
(* and gain at most the new edge.  The lookup of live mode changes no      *)
(* answer: the entry that friends[key] creates for a missing key is false, *)
(* and the find of the Dijkstra variant changes nothing.  Stated for the   *)
(* call of update_network and of the lookup on every canonical pair of     *)
(* nodes in every reachable state, and for the steps of main.              *)
(***************************************************************************)
\* the canonical pairs of the nodes of a graph
CanonicalPairs(gr) == {c \in (DOMAIN gr) \X (DOMAIN gr) : c[1] <= c[2]}

\* the direct-connection answer of the map fr for the pair e
Answer(fr, e) ==
    /\ perfect_hash(e[1], e[2]) \in DOMAIN fr
    /\ fr[perfect_hash(e[1], e[2])]

\* the graph after (out-edge target lists) is the graph before with at most
\* one edge between the nodes of c added
C21_GraphFrame(before, after, c) ==
    /\ DOMAIN after = DOMAIN before
    /\ \A u \in DOMAIN before :
           /\ u \notin {c[1], c[2]} => after[u] = before[u]
           /\ SubSeq(after[u], 1, Len(before[u])) = before[u]
    /\ \A e \in CanonicalPairs(before) :
           e # c => /\ Multiplicity(after, e[1], e[2]) = Multiplicity(before, e[1], e[2])
                    /\ Multiplicity(after, e[2], e[1]) = Multiplicity(before, e[2], e[1])
    /\ Multiplicity(after, c[1], c[2]) >= 1
    /\ Multiplicity(after, c[1], c[2]) <= Multiplicity(before, c[1], c[2]) + 1

\* update_network(c, ...) from the current state, both variants
C21_UpdateFrame(c) ==
    LET s2 == update_network(c, StateB)
        t2 == update_networkD(c, StateD)
    IN  /\ s2.users = users /\ s2.nodes = nodes
        /\ t2.users = usersD /\ t2.nodes = nodesD
        /\ C21_GraphFrame(g, s2.g, c)
        /\ C21_GraphFrame(Targets(gD), Targets(t2.g), c)
        /\ Answer(s2.friends, c)
        /\ c \in t2.connections
        /\ \A e \in CanonicalPairs(g) :
               e # c => /\ Answer(s2.friends, e) = Answer(friends, e)
                        /\ (e \in t2.connections) = (e \in connections)

\* the lookup friends[perfect_hash(c)] from the current state
C21_LookupFrame(c) ==
    LET look == friends_at(friends, perfect_hash(c[1], c[2]))
    IN  /\ look.value = Answer(friends, c)
        /\ \A e \in CanonicalPairs(g) : Answer(look.friends, e) = Answer(friends, e)
        /\ \A k \in DOMAIN friends : k \in DOMAIN look.friends /\ look.friends[k] = friends[k]

\* the canonical pairs whose answer a step of main changes
ChangedB == {e \in CanonicalPairs(g') : Answer(friends', e) # Answer(friends, e)}
ChangedD == {e \in CanonicalPairs(gD') : (e \in connections') # (e \in connections)}

\* C21: update_network changes the answer and the adjacency of its pair
\* only, and the lookup changes no answer
C21_Frame ==
    /\ [](\A c \in CanonicalPairs(g) : C21_UpdateFrame(c) /\ C21_LookupFrame(c))
    /\ [][/\ Cardinality(ChangedB) <= 1 /\ Cardinality(ChangedD) <= 1
          /\ phase = "stream" =>
                 /\ ChangedB \subseteq {live'.loc.connection}
                 /\ ChangedD \subseteq {liveD'.loc.connection}
                 /\ DOMAIN g' = DOMAIN g =>
                        (live'.searched =>
                             C21_GraphFrame(g, g', live'.loc.connection))
                 /\ ~live'.searched => (friends' = friends /\ g' = g)
                 /\ ~liveD'.searched => (connections' = connections /\ gD' = gD)]_vars

\* a streamed payment between two registered users of a graph with three
\* edges went through the lookup, which answered false, and update_network:
\* one edge and one answer more, the other three as before
C21_Witness ==
    /\ live.valid /\ live.searched /\ liveD.searched
    /\ num_vertices(live.g_before) = 4 /\ num_vertices(g) = 4
    /\ Cardinality(EdgeSet(Adj(live.g_before))) = 3
    /\ Cardinality(EdgeSet(Adj(g))) = 4
    /\ Cardinality({e \in CanonicalPairs(g) : Answer(friends, e)}) = 4
    /\ Cardinality(connections) = 4
    /\ live.loc.connection \notin EdgeSet(Adj(live.g_before))
    /\ Answer(friends, live.loc.connection)
    /\ \A k \in DOMAIN friends : friends[k]


====
